---- MODULE Spec2Model ----
(***************************************************************************)
(* The task-list manager of psychedelic-kanban (src/hooks/useKanban.ts):   *)
(* the canonical task list, the bounded undo history, and the operations   *)
(* addTask, deleteTask, moveTask, renameTask, reorderTasks and undo.       *)
(*                                                                         *)
(* One action is one manager call made from a UI event handler together    *)
(* with the React commit that follows it: the queued updaters run once on  *)
(* the pending state and the component re-renders, so the `history` value  *)
(* captured by the next undo() is the committed one.                       *)
(*                                                                         *)
(* The components around the manager (Board, Task, TaskForm, UndoButton)   *)
(* are modelled by one action per event handler; SpecUI is a session at    *)
(* the board.  SpecRender is a caller whose event handlers call undo()     *)
(* more than once before the component renders again.                      *)
(*                                                                         *)
(* Strings are sequences of one-character strings, so that trim() is       *)
(* computed and not assumed.                                               *)
(***************************************************************************)
EXTENDS Integers, Sequences, FiniteSets, TLC

VARIABLES
    tasks,      \* useKanban: const [tasks, setTasks]     (Task[])
    history,    \* useKanban: const [history, setHistory] (Task[][], oldest first)
    nextId,     \* crypto.randomUUID(): number of ids handed out so far
    clock,      \* Date.now(): advances with every event
    ops,        \* number of manager calls made since construction
    last,       \* the last manager call: its name, arguments, return value,
                \* and the canonical list it started from
    pre,        \* pre-mutation lists of the snapshot-saving mutations made
                \* since construction, oldest first
    undone,     \* number of undo() calls made since the last mutation
    penult,     \* the call before the last one, kept around every undo
    store,      \* window.localStorage: what each of the two keys holds
    failing,    \* the keys for which localStorage.setItem throws
    denied,     \* whether localStorage.getItem throws
    faults,     \* number of changes made to the store from outside
    activeTask, \* Board: const [activeTask, setActiveTask] (<<>> is null)
    gesture,    \* the drag in progress (dnd-kit's active id), with the list
                \* held and the number of snapshots saved when it started;
                \* NoGesture when nothing is dragged
    event       \* the last event the UI handled

\* The state of the manager and of the store it writes to.
manager == <<tasks, history, nextId, clock, ops, last, pre, undone,
             penult, store, failing, denied, faults>>

\* The state of the components around the manager.
ui == <<activeTask, gesture, event>>

vars == <<tasks, history, nextId, clock, ops, last, pre, undone,
          penult, store, failing, denied, faults, activeTask, gesture, event>>

----------------------------------------------------------------------------
(* Bounds *)

MaxOps == 3          \* manager calls explored per run of Spec
MaxDeepOps == 29     \* scripted mutations explored per run of SpecDeep
MaxStoreOps == 3     \* manager calls explored per run of SpecStore
MaxFaults == 1       \* outside changes to the store per run of SpecStore
MaxUIOps == 3        \* manager calls explored per run of SpecUI
MaxRenderOps == 3    \* events explored per run of SpecRender
MaxCalls == 2        \* undo() calls an event handler makes in SpecRender

----------------------------------------------------------------------------
(* Program constants and types *)

MAX_HISTORY == 25

STORAGE_KEY == "retro-kanban-tasks"

HISTORY_KEY == "retro-kanban-history"

Keys == {STORAGE_KEY, HISTORY_KEY}

TaskStatus == {"todo", "in-progress", "done"}

COLUMNS ==
    << [id |-> "todo", title |-> "TODO"],
       [id |-> "in-progress", title |-> "IN PROGRESS"],
       [id |-> "done", title |-> "DONE"] >>

Whitespace == {" ", "\t"}

\* Titles a caller may pass to addTask / renameTask.
Titles == { <<" ", "a", " ", "b", "\t">>, <<"c">> }

----------------------------------------------------------------------------
(* Pure functions *)

RECURSIVE trimStart(_)
trimStart(s) ==
    IF s # <<>> /\ Head(s) \in Whitespace THEN trimStart(Tail(s)) ELSE s

RECURSIVE trimEnd(_)
trimEnd(s) ==
    IF s # <<>> /\ s[Len(s)] \in Whitespace
        THEN trimEnd(SubSeq(s, 1, Len(s) - 1))
        ELSE s

\* String.prototype.trim
trim(s) == trimEnd(trimStart(s))

\* slice(-n) miscounted by one: keeps the last n - 1 entries.
sliceLast_OneShort(s, n) ==
    IF Len(s) <= n - 1 THEN s ELSE SubSeq(s, Len(s) - n + 2, Len(s))

\* Array.prototype.slice(-n)
sliceLast(s, n) ==
    IF Len(s) <= n THEN s ELSE SubSeq(s, Len(s) - n + 1, Len(s))

\* slice(1) in place of slice(0, -1): drops the oldest entry.
sliceButLast_DropsOldest(s) ==
    IF s = <<>> THEN <<>> ELSE Tail(s)

\* Array.prototype.slice(0, -1)
sliceButLast(s) ==
    IF s = <<>> THEN <<>> ELSE SubSeq(s, 1, Len(s) - 1)

\* An id source that runs out after two ids and starts over.
randomUUID_Repeats(n) == n % 2

\* The n-th value returned by crypto.randomUUID(): never repeats.
randomUUID(n) == n

\* saveToHistory without the length check.
saveToHistory_Unbounded(prev, currentTasks) == Append(prev, currentTasks)

\* saveToHistory trimming with slice(0, MAX_HISTORY): the newest is dropped.
saveToHistory_KeepsOldest(prev, currentTasks) ==
    LET newHistory == Append(prev, currentTasks)
    IN  IF Len(newHistory) > MAX_HISTORY
            THEN SubSeq(newHistory, 1, MAX_HISTORY)
            ELSE newHistory

\* The updater that saveToHistory passes to setHistory.
saveToHistory(prev, currentTasks) ==
    LET newHistory == Append(prev, currentTasks)
    IN  IF Len(newHistory) > MAX_HISTORY
            THEN sliceLast(newHistory, MAX_HISTORY)
            ELSE newHistory

\* addTask storing the title as given.
addTaskUpdater_Untrimmed(prev, title, id, now) ==
    Append(prev, [id |-> id, title |-> title,
                  status |-> "todo", createdAt |-> now])

\* The updaters that the mutations pass to setTasks.
addTaskUpdater(prev, title, id, now) ==
    Append(prev, [id |-> id, title |-> trim(title),
                  status |-> "todo", createdAt |-> now])

\* deleteTask with the filter predicate inverted: keeps the named task only.
deleteTaskUpdater_Inverted(prev, taskId) ==
    SelectSeq(prev, LAMBDA t : t.id = taskId)

deleteTaskUpdater(prev, taskId) ==
    SelectSeq(prev, LAMBDA t : t.id # taskId)

\* moveTask that re-files the moved task at the end of the list.
moveTaskUpdater_Refiles(prev, taskId, newStatus) ==
    SelectSeq(prev, LAMBDA t : t.id # taskId) \o
    [i \in 1..Len(SelectSeq(prev, LAMBDA t : t.id = taskId)) |->
        [SelectSeq(prev, LAMBDA t : t.id = taskId)[i]
            EXCEPT !.status = newStatus]]

moveTaskUpdater(prev, taskId, newStatus) ==
    [i \in 1..Len(prev) |->
        IF prev[i].id = taskId
            THEN [prev[i] EXCEPT !.status = newStatus]
            ELSE prev[i]]

\* renameTask storing the title as given.
renameTaskUpdater_Untrimmed(prev, taskId, newTitle) ==
    [i \in 1..Len(prev) |->
        IF prev[i].id = taskId
            THEN [prev[i] EXCEPT !.title = newTitle]
            ELSE prev[i]]

renameTaskUpdater(prev, taskId, newTitle) ==
    [i \in 1..Len(prev) |->
        IF prev[i].id = taskId
            THEN [prev[i] EXCEPT !.title = trim(newTitle)]
            ELSE prev[i]]

reorderTasksUpdater(prev, reorderedTasks) == reorderedTasks

\* getTasksByStatus
\* A filter that stops at the first task it finds.
getTasksByStatus_FirstOnly(ts, status) ==
    LET r == SelectSeq(ts, LAMBDA t : t.status = status)
    IN  IF r = <<>> THEN r ELSE <<r[1]>>

\* A filter that counts a task in progress among those still to do.
getTasksByStatus_Unstarted(ts, status) ==
    SelectSeq(ts, LAMBDA t : \/ t.status = status
                             \/ status = "todo" /\ t.status = "in-progress")

getTasksByStatus(ts, status) ==
    SelectSeq(ts, LAMBDA t : t.status = status)

----------------------------------------------------------------------------
(* Serialization: a JSON text is a sequence of tokens, which are the array
   brackets and the object literals *)

Tok(t, v) == [t |-> t, v |-> v]

\* JSON.stringify of a Task, of a Task[] and of a Task[][].
JSONstringifyTask(task) ==
    Tok("{}", <<task.id, task.title, task.status, task.createdAt>>)

JSONstringifyTasks(ts) ==
    [i \in 1..(Len(ts) + 2) |->
        IF i = 1 THEN Tok("[", <<>>)
        ELSE IF i = Len(ts) + 2 THEN Tok("]", <<>>)
        ELSE JSONstringifyTask(ts[i - 1])]

\* The texts of the snapshots h[a] .. h[b], one after the other.
RECURSIVE JSONstringifyRange(_, _, _)
JSONstringifyRange(h, a, b) ==
    IF a > b THEN <<>>
    ELSE IF a = b THEN JSONstringifyTasks(h[a])
    ELSE LET m == (a + b) \div 2
         IN  JSONstringifyRange(h, a, m) \o JSONstringifyRange(h, m + 1, b)

JSONstringifyHistory(h) ==
    <<Tok("[", <<>>)>> \o JSONstringifyRange(h, 1, Len(h)) \o <<Tok("]", <<>>)>>

\* JSON.parse: the value a text denotes, or a failure (it throws).
ParseError == [ok |-> FALSE, val |-> <<>>, next |-> 0]

RECURSIVE parseValue(_, _), parseElements(_, _, _)
parseValue(toks, i) ==
    IF i > Len(toks) THEN ParseError
    ELSE CASE toks[i].t = "[" -> parseElements(toks, i + 1, <<>>)
           [] toks[i].t = "{}" ->
                [ok |-> TRUE,
                 val |-> [id |-> toks[i].v[1], title |-> toks[i].v[2],
                          status |-> toks[i].v[3], createdAt |-> toks[i].v[4]],
                 next |-> i + 1]
           [] OTHER -> ParseError

parseElements(toks, i, acc) ==
    IF i > Len(toks) THEN ParseError
    ELSE IF toks[i].t = "]" THEN [ok |-> TRUE, val |-> acc, next |-> i + 1]
    ELSE LET r == parseValue(toks, i)
         IN  IF r.ok THEN parseElements(toks, r.next, Append(acc, r.val))
                     ELSE ParseError

JSONparse(toks) ==
    LET r == parseValue(toks, 1)
    IN  IF r.ok /\ r.next = Len(toks) + 1 THEN r ELSE ParseError

\* What localStorage holds under a key: nothing, or a text.
NoItem == [present |-> FALSE, item |-> <<>>]

Item(text) == [present |-> TRUE, item |-> text]

\* A lazy initializer that goes on to the stored content when the store
\* refuses access.
read_IgnoresDenied(key, initialValue) ==
    LET entry == store[key]
    IN  IF ~entry.present \/ entry.item = <<>>
            THEN initialValue
            ELSE LET r == JSONparse(entry.item)
                 IN  IF r.ok THEN r.val ELSE initialValue

\* useLocalStorage's lazy initializer.
read(key, initialValue) ==
    IF denied THEN initialValue
    ELSE LET entry == store[key]
         IN  IF ~entry.present \/ entry.item = <<>>
                 THEN initialValue
                 ELSE LET r == JSONparse(entry.item)
                      IN  IF r.ok THEN r.val ELSE initialValue

\* A write effect that exists for the task record only.
write_TasksOnly(key, text) ==
    IF key \in failing \/ key = HISTORY_KEY THEN store[key] ELSE Item(text)

\* useLocalStorage's write effect: what the key holds after it ran.
write(key, text) ==
    IF key \in failing THEN store[key] ELSE Item(text)

----------------------------------------------------------------------------
(* Callers' inputs *)

Reverse(s) == [i \in 1..Len(s) |-> s[Len(s) + 1 - i]]

\* Ids a caller may name: those of the listed tasks and one matching none.
TaskIds(ts) == {ts[i].id : i \in 1..Len(ts)} \cup {nextId}

\* Lists a caller may pass to reorderTasks: the manager takes any Task[].
NewLists(ts) ==
    {Reverse(ts)} \cup
    (IF ts = <<>> THEN {} ELSE {Tail(ts), Append(ts, ts[1])})

NoCall ==
    [op |-> "none", taskId |-> -1, title |-> <<>>, newStatus |-> "todo",
     newList |-> <<>>, saveHistory |-> FALSE, ret |-> TRUE, before |-> <<>>,
     defaulted |-> FALSE, result |-> <<>>, hbefore |-> <<>>]

Mutations == {"addTask", "deleteTask", "moveTask", "renameTask", "reorderTasks"}

\* No task id: ids handed out are 0, 1, ...
NoId == -1

\* A drag event's `over`: a column, a task, or null (NoOver).
NoOver == [column |-> "", task |-> NoId]

OverColumn(id) == [column |-> id, task |-> NoId]

OverTask(id) == [column |-> "", task |-> id]

NoGesture == [active |-> NoId, before |-> <<>>, saved |-> 0]

NoEvent ==
    [name |-> "none", taskId |-> NoId, text |-> <<>>, key |-> "",
     over |-> NoOver, idle |-> FALSE]

----------------------------------------------------------------------------
(* Construction *)

\* The n-th mutation (n = 0, 1, ...) of a fixed session: two tasks are added,
\* one is moved, one renamed, the list reversed, and both are deleted.
ScriptCall(n, ts) ==
    CASE n % 7 = 0 -> [NoCall EXCEPT !.op = "addTask",
                                     !.title = <<" ", "a", " ", "b", "\t">>]
      [] n % 7 = 1 -> [NoCall EXCEPT !.op = "addTask", !.title = <<"c">>]
      [] n % 7 = 2 -> [NoCall EXCEPT !.op = "moveTask", !.taskId = ts[1].id,
                         !.newStatus = IF (n \div 7) % 2 = 0 THEN "done"
                                                             ELSE "in-progress"]
      [] n % 7 = 3 -> [NoCall EXCEPT !.op = "renameTask", !.taskId = ts[2].id,
                                     !.title = <<"d", " ">>]
      [] n % 7 = 4 -> [NoCall EXCEPT !.op = "reorderTasks",
                                     !.newList = Reverse(ts),
                                     !.saveHistory = TRUE]
      [] OTHER     -> [NoCall EXCEPT !.op = "deleteTask", !.taskId = ts[1].id]

Empty == [tasks |-> <<>>, history |-> <<>>, nextId |-> 0, clock |-> 0]

\* The state the n-th scripted mutation leaves, computed with the updaters.
ScriptStep(s, n) ==
    LET c == ScriptCall(n, s.tasks)
        t == CASE c.op = "addTask" ->
                    addTaskUpdater(s.tasks, c.title, randomUUID(s.nextId), s.clock)
               [] c.op = "deleteTask" -> deleteTaskUpdater(s.tasks, c.taskId)
               [] c.op = "moveTask" ->
                    moveTaskUpdater(s.tasks, c.taskId, c.newStatus)
               [] c.op = "renameTask" ->
                    renameTaskUpdater(s.tasks, c.taskId, c.title)
               [] OTHER -> reorderTasksUpdater(s.tasks, c.newList)
    IN  [tasks   |-> t,
         history |-> saveToHistory(s.history, s.tasks),
         nextId  |-> IF c.op = "addTask" THEN s.nextId + 1 ELSE s.nextId,
         clock   |-> s.clock + 1]

\* The state that the scripted mutations numbered a .. b-1 leave after s,
\* computed by halves (the test on half.clock makes the first half be
\* evaluated before the second starts) so that the evaluation stays shallow.
RECURSIVE ReplayFrom(_, _, _)
ReplayFrom(s, a, b) ==
    IF a >= b THEN s
    ELSE IF b = a + 1 THEN ScriptStep(s, a)
    ELSE LET m == (a + b) \div 2
             half == ReplayFrom(s, a, m)
         IN  IF half.clock >= 0 THEN ReplayFrom(half, m, b) ELSE half

Replay(n) == ReplayFrom(Empty, 0, n)

\* The state that k further undo() calls leave.
RECURSIVE Unwind(_, _)
Unwind(s, k) ==
    IF k = 0 \/ Len(s.history) = 0 THEN s
    ELSE IF k = 1
        THEN [s EXCEPT !.tasks = s.history[Len(s.history)],
                       !.history = sliceButLast(s.history),
                       !.clock = s.clock + 1]
        ELSE LET half == Unwind(s, k \div 2)
             IN  IF half.clock >= 0 THEN Unwind(half, k - (k \div 2)) ELSE half

\* Earlier sessions whose persisted records a new session may load, each as
\* <<scripted mutations, undo() calls after them>>: none (the store is
\* empty), one that left a history one short of full, and one that undid
\* everything the full history held.
StoredSessions == {<<0, 0>>, <<24, 0>>, <<27, 25>>}

\* useLocalStorage's lazy initializers: both records are read from the store,
\* which is empty on first use and otherwise holds what an earlier session
\* of the program wrote.
InitFrom(s) ==
    /\ tasks = s.tasks
    /\ history = s.history
    /\ nextId = s.nextId
    /\ clock = s.clock
    /\ ops = 0
    /\ last = NoCall
    /\ pre = <<>>
    /\ undone = 0
    /\ penult = NoCall
    /\ store = (STORAGE_KEY :> Item(JSONstringifyTasks(s.tasks)))
               @@ (HISTORY_KEY :> Item(JSONstringifyHistory(s.history)))
    /\ failing = {}
    /\ denied = FALSE
    /\ faults = 0
    /\ activeTask = <<>>
    /\ gesture = NoGesture
    /\ event = NoEvent

Init == \E n \in StoredSessions : InitFrom(Unwind(Replay(n[1]), n[2]))

InitDeep == InitFrom(Empty)

\* Short earlier sessions, for runs that are about the store.
StoredSessionsStore == {<<0, 0>>, <<4, 1>>}

InitStore ==
    \E n \in StoredSessionsStore : InitFrom(Unwind(Replay(n[1]), n[2]))

----------------------------------------------------------------------------
(* Operations *)

\* setValue kept from updating a state whose store write throws, as if the
\* write were made in the setter, uncaught, before setStoredValue.
Step_WriteInSetter(newTasks, newHistory, call, newPre, newUndone, tasksSet, historySet) ==
    /\ tasks' = IF tasksSet /\ STORAGE_KEY \in failing THEN tasks
                                                        ELSE newTasks
    /\ history' = IF historySet /\ HISTORY_KEY \in failing THEN history
                                                            ELSE newHistory
    /\ nextId' = IF call.op = "addTask" THEN nextId + 1 ELSE nextId
    /\ clock' = clock + 1
    /\ ops' = ops + 1
    /\ penult' = IF call.op = "undo" \/ last.op = "undo" THEN last
                                                         ELSE NoCall
    /\ last' = [call EXCEPT !.before = tasks]
    /\ pre' = newPre
    /\ undone' = newUndone
    /\ store' =
         [store EXCEPT
            ![STORAGE_KEY] =
                IF tasksSet THEN write(STORAGE_KEY, JSONstringifyTasks(newTasks))
                            ELSE @,
            ![HISTORY_KEY] =
                IF historySet
                    THEN write(HISTORY_KEY, JSONstringifyHistory(newHistory))
                    ELSE @]
    /\ UNCHANGED <<failing, denied, faults>>

\* The two useLocalStorage states after an event: setValue installs the new
\* values, the component re-renders, and the write effect of each state that
\* was given a new value stores it.
Step(newTasks, newHistory, call, newPre, newUndone, tasksSet, historySet) ==
    /\ tasks' = newTasks
    /\ history' = newHistory
    /\ nextId' = IF call.op = "addTask" THEN nextId + 1 ELSE nextId
    /\ clock' = clock + 1
    /\ ops' = ops + 1
    /\ penult' = IF call.op = "undo" \/ last.op = "undo" THEN last
                                                         ELSE NoCall
    /\ last' = [call EXCEPT !.before = tasks]
    /\ pre' = newPre
    /\ undone' = newUndone
    /\ store' =
         [store EXCEPT
            ![STORAGE_KEY] =
                IF tasksSet THEN write(STORAGE_KEY, JSONstringifyTasks(tasks'))
                            ELSE @,
            ![HISTORY_KEY] =
                IF historySet
                    THEN write(HISTORY_KEY, JSONstringifyHistory(history'))
                    ELSE @]
    /\ UNCHANGED <<failing, denied, faults>>

\* One manager call and the commit of its queued state updates.  A mutation
\* always hands setTasks a new array; reorderTasks and undo hand it an array
\* they were given, which may be the very array already held, and then the
\* tasks state does not change and its write effect does not run.
Commit(newTasks, newHistory, call, saved) ==
    \E sameArray \in (IF call.op \in {"reorderTasks", "undo"} /\ newTasks = tasks
                          THEN BOOLEAN ELSE {FALSE}) :
        Step(newTasks, newHistory, call,
             IF saved THEN Append(pre, tasks) ELSE pre,
             IF call.op = "undo" THEN undone + 1
                ELSE IF call.op \in Mutations THEN 0 ELSE undone,
             (call.op \in Mutations \/ (call.op = "undo" /\ call.ret))
                /\ ~sameArray,
             saved \/ (call.op = "undo" /\ call.ret))

addTask(title) ==
    Commit(addTaskUpdater(tasks, title, randomUUID(nextId), clock),
           saveToHistory(history, tasks),
           [NoCall EXCEPT !.op = "addTask", !.title = title],
           TRUE)

deleteTask(taskId) ==
    Commit(deleteTaskUpdater(tasks, taskId),
           saveToHistory(history, tasks),
           [NoCall EXCEPT !.op = "deleteTask", !.taskId = taskId],
           TRUE)

\* moveTask that returns early, saving nothing, when no task has the id.
moveTask_SkipsUnmatched(taskId, newStatus) ==
    Commit(moveTaskUpdater(tasks, taskId, newStatus),
           IF \E i \in 1..Len(tasks) : tasks[i].id = taskId
               THEN saveToHistory(history, tasks)
               ELSE history,
           [NoCall EXCEPT !.op = "moveTask", !.taskId = taskId,
                          !.newStatus = newStatus],
           \E i \in 1..Len(tasks) : tasks[i].id = taskId)

moveTask(taskId, newStatus) ==
    Commit(moveTaskUpdater(tasks, taskId, newStatus),
           saveToHistory(history, tasks),
           [NoCall EXCEPT !.op = "moveTask", !.taskId = taskId,
                          !.newStatus = newStatus],
           TRUE)

\* renameTask that saves the renamed list instead of the previous one.
renameTask_SavesAfter(taskId, newTitle) ==
    Commit(renameTaskUpdater(tasks, taskId, newTitle),
           saveToHistory(history, renameTaskUpdater(tasks, taskId, newTitle)),
           [NoCall EXCEPT !.op = "renameTask", !.taskId = taskId,
                          !.title = newTitle],
           TRUE)

renameTask(taskId, newTitle) ==
    Commit(renameTaskUpdater(tasks, taskId, newTitle),
           saveToHistory(history, tasks),
           [NoCall EXCEPT !.op = "renameTask", !.taskId = taskId,
                          !.title = newTitle],
           TRUE)

\* reorderTasks that saves a snapshot whatever the flag.
reorderTasks_AlwaysSaves(reorderedTasks, saveHistory) ==
    Commit(reorderTasksUpdater(tasks, reorderedTasks),
           saveToHistory(history, tasks),
           [NoCall EXCEPT !.op = "reorderTasks", !.newList = reorderedTasks,
                          !.saveHistory = saveHistory],
           TRUE)

reorderTasks(reorderedTasks, saveHistory) ==
    Commit(reorderTasksUpdater(tasks, reorderedTasks),
           IF saveHistory THEN saveToHistory(history, tasks) ELSE history,
           [NoCall EXCEPT !.op = "reorderTasks", !.newList = reorderedTasks,
                          !.saveHistory = saveHistory],
           saveHistory)

\* reorderTasks called with the list only: saveHistory takes its default.
reorderTasksDefault(reorderedTasks) ==
    LET saveHistory == TRUE
    IN  Commit(reorderTasksUpdater(tasks, reorderedTasks),
               IF saveHistory THEN saveToHistory(history, tasks) ELSE history,
               [NoCall EXCEPT !.op = "reorderTasks",
                              !.newList = reorderedTasks,
                              !.saveHistory = saveHistory,
                              !.defaulted = TRUE],
               saveHistory)

\* A call of getTasksByStatus: it sets no state.
tasksByStatus(status) ==
    Commit(tasks, history,
           [NoCall EXCEPT !.op = "getTasksByStatus", !.newStatus = status,
                          !.result = getTasksByStatus(tasks, status)],
           FALSE)

\* A reload when only the task list is kept in useLocalStorage: the history
\* starts empty.
mount_FreshHistory ==
    Step(read(STORAGE_KEY, <<>>), <<>>,
         [NoCall EXCEPT !.op = "mount", !.hbefore = history],
         <<>>, 0, TRUE, TRUE)

\* A reload that keeps the two records in one unit: when either cannot be
\* read, both states start from their initial values.
mount_SingleRecord ==
    LET readable(key) == /\ ~denied
                         /\ store[key].present
                         /\ store[key].item # <<>>
                         /\ JSONparse(store[key].item).ok
        both == \A key \in Keys : readable(key)
    IN  Step(IF both THEN read(STORAGE_KEY, <<>>) ELSE <<>>,
             IF both THEN read(HISTORY_KEY, <<>>) ELSE <<>>,
             [NoCall EXCEPT !.op = "mount", !.hbefore = history],
             <<>>, 0, TRUE, TRUE)

\* The page is loaded again: useKanban is constructed from the store, and
\* the write effects of the first render store what was read.
mount ==
    Step(read(STORAGE_KEY, <<>>), read(HISTORY_KEY, <<>>),
         [NoCall EXCEPT !.op = "mount", !.hbefore = history],
         <<>>, 0, TRUE, TRUE)

\* undo without the empty-history check.
undo_Unchecked ==
    LET previousState == IF Len(history) = 0 THEN <<>>
                                             ELSE history[Len(history)]
    IN  Commit(previousState, sliceButLast(history),
               [NoCall EXCEPT !.op = "undo", !.ret = TRUE], FALSE)

\* undo restoring history[0] in place of the last entry.
undo_RestoresOldest ==
    IF Len(history) = 0
        THEN Commit(tasks, history,
                    [NoCall EXCEPT !.op = "undo", !.ret = FALSE], FALSE)
        ELSE LET previousState == history[1]
             IN  Commit(previousState, sliceButLast(history),
                        [NoCall EXCEPT !.op = "undo", !.ret = TRUE], FALSE)

undo ==
    IF Len(history) = 0
        THEN Commit(tasks, history,
                    [NoCall EXCEPT !.op = "undo", !.ret = FALSE], FALSE)
        ELSE LET previousState == history[Len(history)]
             IN  Commit(previousState, sliceButLast(history),
                        [NoCall EXCEPT !.op = "undo", !.ret = TRUE], FALSE)

\* What the history state holds after the updater that undo() hands to
\* setHistory, prev => prev.slice(0, -1), was queued calls times and React
\* ran the queue.
RECURSIVE runSliceUpdaters(_, _)
runSliceUpdaters(prev, calls) ==
    IF calls = 0 THEN prev
                 ELSE runSliceUpdaters(sliceButLast(prev), calls - 1)

\* One event handler calls undo() calls times.  The calls are made on the
\* undo callback of one render, so each reads the history that this render
\* captured; the state updates they queue run when the handler has returned.
undoFromRender(calls) ==
    IF Len(history) = 0
        THEN Step(tasks, history,
                  [NoCall EXCEPT !.op = "undo", !.ret = FALSE],
                  pre, undone + calls, FALSE, FALSE)
        ELSE LET previousState == history[Len(history)]
             IN  Step(previousState, runSliceUpdaters(history, calls),
                      [NoCall EXCEPT !.op = "undo", !.ret = TRUE],
                      pre, undone + calls, TRUE, TRUE)

----------------------------------------------------------------------------
(* The components that call the manager *)

\* An undo control enabled whenever the board holds a task.
canUndo_WhenTasks == Len(tasks) > 0

\* useKanban's return value: what the undo control is given.
canUndo == Len(history) > 0

historyCount == Len(history)

\* Board's findTask: the first listed task with the id, <<>> when none has it.
findTask(id) ==
    LET found == {i \in 1..Len(tasks) : tasks[i].id = id}
    IN  IF found = {} THEN <<>>
        ELSE <<tasks[CHOOSE i \in found : \A j \in found : i <= j]>>

\* Array.prototype.findIndex on ids: the 0-based index of the first task
\* with the id, -1 when none has it.
findIndex(ts, id) ==
    LET found == {i \in 1..Len(ts) : ts[i].id = id}
    IN  IF found = {} THEN -1
        ELSE (CHOOSE i \in found : \A j \in found : i <= j) - 1

\* s.splice(start, 1) and s.splice(start, 0, item), start counted from 0:
\* what s holds afterwards.
spliceOut(s, start) ==
    [i \in 1..(Len(s) - 1) |-> IF i <= start THEN s[i] ELSE s[i + 1]]

spliceIn(s, start, item) ==
    [i \in 1..(Len(s) + 1) |->
        IF i <= start THEN s[i] ELSE IF i = start + 1 THEN item ELSE s[i - 1]]

\* A reordering that inserts the moved task before it takes it out.
reorderedColumnTasks_InsertsFirst(columnTasks, oldIndex, newIndex) ==
    spliceOut(spliceIn(columnTasks, newIndex, columnTasks[oldIndex + 1]),
              oldIndex)

\* handleDragEnd's reordering of one column: the task at oldIndex is taken
\* out and put back at newIndex.
reorderedColumnTasks(columnTasks, oldIndex, newIndex) ==
    LET movedTask == columnTasks[oldIndex + 1]
    IN  spliceIn(spliceOut(columnTasks, oldIndex), newIndex, movedTask)

\* Texts a user may leave in the task form or in a task's edit field.
Inputs ==
    { <<" ", "\t">>, <<" ", "a", " ", "b", "\t">>, <<"c">> }

\* Targets a drag event may name: nothing, a column, a listed task.
Overs ==
    {NoOver} \cup {OverColumn(COLUMNS[i].id) : i \in 1..Len(COLUMNS)}
             \cup {OverTask(tasks[i].id) : i \in 1..Len(tasks)}

\* The event recorded as handled, with whether handling it left everything
\* else as it was.
Handled(e) ==
    event' = [e EXCEPT !.idle = (ops' = ops /\ gesture' = gesture)]

\* TaskForm's submit handler without the check of the text.
handleSubmit_Unchecked(title) ==
    /\ gesture.active = NoId
    /\ UNCHANGED <<activeTask, gesture>>
    /\ addTask(trim(title))
    /\ Handled([NoEvent EXCEPT !.name = "handleSubmit", !.text = title])

\* TaskForm: the form is submitted with title in its input.
handleSubmit(title) ==
    /\ gesture.active = NoId
    /\ UNCHANGED <<activeTask, gesture>>
    /\ IF trim(title) # <<>> THEN addTask(trim(title))
                             ELSE UNCHANGED manager
    /\ Handled([NoEvent EXCEPT !.name = "handleSubmit", !.text = title])

\* A commit of the edit that does not compare the text with the title.
handleBlur_NoCompare(task, editTitle) ==
    IF trim(editTitle) # <<>>
        THEN renameTask(task.id, trim(editTitle))
        ELSE UNCHANGED manager

\* Task's handleBlur: the edit of task is committed with editTitle in the
\* edit field.
handleBlur(task, editTitle) ==
    IF trim(editTitle) # <<>> /\ trim(editTitle) # task.title
        THEN renameTask(task.id, trim(editTitle))
        ELSE UNCHANGED manager

\* Task: the edit field of task loses the focus.
onBlur(task, editTitle) ==
    /\ gesture.active = NoId
    /\ UNCHANGED <<activeTask, gesture>>
    /\ handleBlur(task, editTitle)
    /\ Handled([NoEvent EXCEPT !.name = "onBlur",
                                !.taskId = task.id, !.text = editTitle])

\* Task: a key is pressed in the edit field of task.
handleKeyDown(task, key, editTitle) ==
    /\ gesture.active = NoId
    /\ UNCHANGED <<activeTask, gesture>>
    /\ IF key = "Enter" THEN handleBlur(task, editTitle)
                        ELSE UNCHANGED manager
    /\ Handled([NoEvent EXCEPT !.name = "handleKeyDown",
                                !.taskId = task.id, !.text = editTitle, !.key = key])

\* Task: the delete button of task is clicked.
onDelete(task) ==
    /\ gesture.active = NoId
    /\ UNCHANGED <<activeTask, gesture>>
    /\ deleteTask(task.id)
    /\ Handled([NoEvent EXCEPT !.name = "onDelete", !.taskId = task.id])

\* UndoButton: the button, disabled unless canUndo, is clicked.
onUndo ==
    /\ gesture.active = NoId
    /\ canUndo
    /\ UNCHANGED <<activeTask, gesture>>
    /\ undo
    /\ Handled([NoEvent EXCEPT !.name = "onUndo"])

\* Board: a drag of the task with id activeId starts.
handleDragStart(activeId) ==
    /\ gesture.active = NoId
    /\ activeTask' = IF findTask(activeId) # <<>> THEN findTask(activeId)
                                                  ELSE activeTask
    /\ gesture' = [active |-> activeId, before |-> tasks, saved |-> Len(pre)]
    /\ UNCHANGED manager
    /\ Handled([NoEvent EXCEPT !.name = "handleDragStart",
                                !.taskId = activeId])

\* A drag-over handler that moves the task whatever its status.
handleDragOver_AlwaysMoves(over) ==
    /\ gesture.active # NoId
    /\ UNCHANGED <<activeTask, gesture>>
    /\ LET activeId == gesture.active
           dragged == findTask(activeId)
           isOverColumn == \E i \in 1..Len(COLUMNS) : COLUMNS[i].id = over.column
           overTask == findTask(over.task)
       IN  IF over = NoOver \/ dragged = <<>> THEN UNCHANGED manager
           ELSE IF isOverColumn THEN moveTask(activeId, over.column)
           ELSE IF overTask # <<>>
               THEN moveTask(activeId, overTask[1].status)
               ELSE UNCHANGED manager
    /\ Handled([NoEvent EXCEPT !.name = "handleDragOver",
                                !.taskId = gesture.active, !.over = over])

\* Board: the dragged task hovers over a droppable.
handleDragOver(over) ==
    /\ gesture.active # NoId
    /\ UNCHANGED <<activeTask, gesture>>
    /\ LET activeId == gesture.active
           dragged == findTask(activeId)
           isOverColumn == \E i \in 1..Len(COLUMNS) : COLUMNS[i].id = over.column
           overTask == findTask(over.task)
       IN  IF over = NoOver \/ dragged = <<>> THEN UNCHANGED manager
           ELSE IF isOverColumn
               THEN IF dragged[1].status # over.column
                        THEN moveTask(activeId, over.column)
                        ELSE UNCHANGED manager
           ELSE IF overTask # <<>> /\ dragged[1].status # overTask[1].status
               THEN moveTask(activeId, overTask[1].status)
               ELSE UNCHANGED manager
    /\ Handled([NoEvent EXCEPT !.name = "handleDragOver",
                                !.taskId = gesture.active, !.over = over])

\* Board: the dragged task is dropped.
handleDragEnd(over) ==
    /\ gesture.active # NoId
    /\ activeTask' = <<>>
    /\ gesture' = NoGesture
    /\ LET activeId == gesture.active
           dragged == findTask(activeId)
           overTask == findTask(over.task)
       IN  IF over = NoOver \/ activeId = over.task \/ dragged = <<>>
               THEN UNCHANGED manager
           ELSE IF overTask # <<>> /\ dragged[1].status = overTask[1].status
               THEN LET columnTasks == getTasksByStatus(tasks, dragged[1].status)
                        oldIndex == findIndex(columnTasks, activeId)
                        newIndex == findIndex(columnTasks, over.task)
                        otherTasks ==
                            SelectSeq(tasks,
                                LAMBDA t : t.status # dragged[1].status)
                    IN  IF oldIndex # -1 /\ newIndex # -1
                            THEN reorderTasksDefault(
                                     otherTasks \o
                                     reorderedColumnTasks(columnTasks,
                                                          oldIndex, newIndex))
                            ELSE UNCHANGED manager
           ELSE UNCHANGED manager
    /\ Handled([NoEvent EXCEPT !.name = "handleDragEnd",
                                !.taskId = gesture.active, !.over = over])

----------------------------------------------------------------------------
(* Specifications *)

\* Any caller: every operation with every input, in any order.
Next ==
    /\ ops < MaxOps
    /\ \/ \E title \in Titles : addTask(title)
       \/ \E taskId \in TaskIds(tasks) : deleteTask(taskId)
       \/ \E taskId \in TaskIds(tasks), newStatus \in TaskStatus :
              moveTask(taskId, newStatus)
       \/ \E taskId \in TaskIds(tasks), newTitle \in Titles :
              renameTask(taskId, newTitle)
       \/ \E reorderedTasks \in NewLists(tasks), saveHistory \in BOOLEAN :
              reorderTasks(reorderedTasks, saveHistory)
       \/ reorderTasksDefault(Reverse(tasks))
       \/ undo
    /\ UNCHANGED ui

Spec == Init /\ [][Next]_vars

\* A session over a store that can be changed from outside or refuse access.
Tamper(key, kind) ==
    /\ kind = "truncated" => store[key].present /\ store[key].item # <<>>
    /\ store' = [store EXCEPT ![key] =
          CASE kind = "removed" -> NoItem
            [] kind = "empty" -> Item(<<>>)
            [] OTHER -> Item(sliceButLast(@.item))]
    /\ UNCHANGED <<failing, denied>>

SetFailing(keys) ==
    /\ keys # failing
    /\ failing' = keys
    /\ UNCHANGED <<store, denied>>

SetDenied ==
    /\ denied' = ~denied
    /\ UNCHANGED <<store, failing>>

Fault ==
    /\ faults < MaxFaults
    /\ faults' = faults + 1
    /\ UNCHANGED <<tasks, history, nextId, clock, ops, last, pre, undone,
                   penult, activeTask, gesture, event>>
    /\ \/ \E key \in Keys, kind \in {"removed", "empty", "truncated"} :
              Tamper(key, kind)
       \/ \E keys \in SUBSET Keys : SetFailing(keys)
       \/ SetDenied

NextStore ==
    \/ /\ ops < MaxStoreOps
       /\ \/ addTask(<<" ", "a", " ", "b", "\t">>)
          \/ \E i \in 1..Len(tasks) : deleteTask(tasks[i].id)
          \/ tasks # <<>> /\ moveTask(tasks[1].id, "done")
          \/ tasks # <<>> /\ renameTask(tasks[1].id, <<"c">>)
          \/ reorderTasksDefault(Reverse(tasks))
          \/ \E status \in TaskStatus : tasksByStatus(status)
          \/ undo
          \/ mount
       /\ UNCHANGED ui
    \/ Fault

SpecStore == InitStore /\ [][NextStore]_vars

\* A first session: the scripted mutations, then undo() until it fails.
DeepMutate ==
    /\ undone = 0
    /\ Len(pre) < MaxDeepOps
    /\ LET c == ScriptCall(Len(pre), tasks)
       IN  \/ c.op = "addTask" /\ addTask(c.title)
           \/ c.op = "deleteTask" /\ deleteTask(c.taskId)
           \/ c.op = "moveTask" /\ moveTask(c.taskId, c.newStatus)
           \/ c.op = "renameTask" /\ renameTask(c.taskId, c.title)
           \/ c.op = "reorderTasks" /\ reorderTasks(c.newList, c.saveHistory)
    /\ UNCHANGED ui

DeepUndo ==
    /\ undone <= MAX_HISTORY
    /\ undo
    /\ UNCHANGED ui

NextDeep == DeepMutate \/ DeepUndo

SpecDeep == InitDeep /\ [][NextDeep]_vars

\* Earlier sessions a session at the board may start from: none, one that
\* added two tasks, and one that went on to move one, rename the other and
\* undo the renaming.
StoredSessionsUI == {<<0, 0>>, <<2, 0>>, <<4, 1>>}

InitUI == \E n \in StoredSessionsUI : InitFrom(Unwind(Replay(n[1]), n[2]))

\* A session at the board: every event the components handle.  An event
\* that leaves everything as it was ends the run: what may follow it is what
\* may follow the state it was handled in.
NextUI ==
    /\ ops < MaxUIOps
    /\ ~event.idle
    /\ \/ \E title \in Inputs : handleSubmit(title)
       \/ \E i \in 1..Len(tasks), editTitle \in Inputs :
              onBlur(tasks[i], editTitle)
       \/ \E i \in 1..Len(tasks), key \in {"Enter", "Escape"},
             editTitle \in Inputs :
              handleKeyDown(tasks[i], key, editTitle)
       \/ \E i \in 1..Len(tasks) : onDelete(tasks[i])
       \/ onUndo
       \/ \E i \in 1..Len(tasks) : handleDragStart(tasks[i].id)
       \/ \E over \in Overs : handleDragOver(over)
       \/ \E over \in Overs : handleDragEnd(over)

SpecUI == InitUI /\ [][NextUI]_vars

\* A caller whose event handlers may call undo() more than once.
NextRender ==
    /\ ops < MaxRenderOps
    /\ \/ addTask(<<" ", "a", " ", "b", "\t">>)
       \/ \E i \in 1..Len(tasks) : deleteTask(tasks[i].id)
       \/ tasks # <<>> /\ moveTask(tasks[1].id, "in-progress")
       \/ tasks # <<>> /\ renameTask(tasks[1].id, <<"c">>)
       \/ \E calls \in 1..MaxCalls : undoFromRender(calls)
    /\ UNCHANGED ui

SpecRender == InitStore /\ [][NextRender]_vars

----------------------------------------------------------------------------
(* Properties *)

Min(a, b) == IF a < b THEN a ELSE b

\* The step just taken was a call that saves a snapshot.
Saving(call) ==
    \/ call.op \in {"addTask", "deleteTask", "moveTask", "renameTask"}
    \/ call.op = "reorderTasks" /\ call.saveHistory

\* h2 is h1 with snapshot snap pushed under the bound of 25.
Pushed(h1, snap, h2) ==
    IF Len(h1) < 25
        THEN /\ Len(h2) = Len(h1) + 1
             /\ \A i \in 1..Len(h1) : h2[i] = h1[i]
             /\ h2[Len(h2)] = snap
        ELSE /\ Len(h2) = 25
             /\ \A i \in 1..24 : h2[i] = h1[i + 1]
             /\ h2[25] = snap

DistinctIds(ts) ==
    \A i, j \in 1..Len(ts) : i # j => ts[i].id # ts[j].id

\* t is s without its leading and trailing whitespace.
IsTrimOf(t, s) ==
    /\ t = <<>> \/ (t[1] \notin Whitespace /\ t[Len(t)] \notin Whitespace)
    /\ \E a \in 0..Len(s) :
          /\ a + Len(t) <= Len(s)
          /\ \A i \in 1..Len(s) :
                IF i > a /\ i <= a + Len(t) THEN s[i] = t[i - a]
                                           ELSE s[i] \in Whitespace

\* C1: after every operation the history holds at most 25 snapshots.
C1_HistoryBounded == Len(history) <= 25

\* A mutation has just saved a snapshot into a history that was already full.
C1_Witness ==
    /\ Len(history) = 25
    /\ ops >= 2
    /\ Len(pre) = ops
    /\ Len(last.before) > 0

\* C2 as stated: undo() right after any single mutation, reorderTasks with
\* either flag included, restores the list the mutation started from and
\* returns true.
C2_Original ==
    [][(last.op \in Mutations /\ last'.op = "undo")
        => (tasks' = last.before /\ last'.ret = TRUE)]_vars

\* C2 amended: undo() right after a single snapshot-saving mutation (addTask,
\* deleteTask, moveTask, renameTask, or reorderTasks with saveHistory true)
\* restores the list the mutation started from and returns true.
C2_UndoRestores ==
    [][(Saving(last) /\ last'.op = "undo")
        => (tasks' = last.before /\ last'.ret = TRUE)]_vars

\* undo() has just reverted a mutation that had changed the list.
C2_Witness ==
    /\ last.op = "undo"
    /\ last.ret = TRUE
    /\ undone = 1
    /\ Len(pre) >= 1
    /\ tasks = pre[Len(pre)]
    /\ tasks # last.before

\* C3: with an empty history undo() returns false and leaves the canonical
\* list and the history as they were.
C3_EmptyUndo ==
    [][(last'.op = "undo" /\ history = <<>>)
        => (last'.ret = FALSE /\ tasks' = tasks /\ history' = history)]_vars

\* undo() has just failed on a non-empty list.
C3_Witness ==
    /\ last.op = "undo"
    /\ last.ret = FALSE
    /\ history = <<>>
    /\ tasks # <<>>
    /\ tasks = last.before

\* C4: with 25 snapshots held, a snapshot-saving mutation evicts the oldest,
\* keeps the other 24 in order and places the pre-mutation list last.
C4_FifoEviction ==
    [][(Len(history) = 25 /\ Saving(last'))
        => /\ Len(history') = 25
           /\ \A i \in 1..24 : history'[i] = history[i + 1]
           /\ history'[25] = tasks]_vars

\* The third saving mutation in a row has just acted on a full history.
C4_Witness ==
    /\ Len(history) = 25
    /\ ops = 3
    /\ Len(pre) = 3
    /\ history[25] = pre[3]
    /\ history[24] = pre[2]
    /\ history[25] # history[24]

\* C5: addTask, deleteTask, moveTask and renameTask each push exactly one
\* snapshot, equal to the canonical list as it was before the call.
C5_OneSnapshotPerMutation ==
    [][(last'.op \in {"addTask", "deleteTask", "moveTask", "renameTask"})
        => Pushed(history, tasks, history')]_vars

\* A rename has just changed a title, and the snapshot holds the old one.
C5_Witness ==
    /\ last.op = "renameTask"
    /\ tasks # last.before
    /\ Len(history) < 25
    /\ history[Len(history)] = last.before

\* C6: a successful undo() removes the newest snapshot only, makes it the
\* canonical list, and adds nothing to the history.
C6_UndoPops ==
    [][(last'.op = "undo")
        => /\ last'.ret = (history # <<>>)
           /\ last'.ret = TRUE =>
                /\ Len(history') = Len(history) - 1
                /\ \A i \in 1..Len(history') : history'[i] = history[i]
                /\ tasks' = history[Len(history)]]_vars

\* undo() has just popped a snapshot off a history that keeps older ones.
C6_Witness ==
    /\ last.op = "undo"
    /\ last.ret = TRUE
    /\ Len(history) >= 2
    /\ tasks # last.before
    /\ history[Len(history)] # tasks

\* C7: after N saving mutations from an empty history, Min(N, 25) undo()
\* calls in a row return true and step back through the pre-mutation lists,
\* newest first (down to the original list when N <= 25); the next returns
\* false.
C7_UndoDepth ==
    LET N == Len(pre)
    IN  /\ (undone >= 1 /\ undone <= Min(N, 25))
            => (last.op = "undo" /\ last.ret = TRUE
                /\ tasks = pre[N - undone + 1])
        /\ (undone = Min(N, 25) + 1)
            => (last.op = "undo" /\ last.ret = FALSE)
        /\ (N <= 25 /\ undone = N) => tasks = <<>>

\* More than 25 mutations were made and the 26th undo() has just failed.
C7_Witness ==
    /\ Len(pre) > 25
    /\ undone = 26
    /\ last.ret = FALSE
    /\ tasks = pre[Len(pre) - 24]

\* C8 as stated: the ids in the canonical list are pairwise distinct after
\* every sequence of manager operations.
C8_Original == DistinctIds(tasks)

AllDistinct ==
    /\ DistinctIds(tasks)
    /\ \A i \in 1..Len(history) : DistinctIds(history[i])

\* C8 amended: the ids in the canonical list (and in every snapshot) stay
\* pairwise distinct as long as every list passed to reorderTasks has
\* pairwise distinct ids.
C8_DistinctIds ==
    /\ AllDistinct
    /\ [][(AllDistinct /\ (last'.op = "reorderTasks"
                             => DistinctIds(last'.newList)))
            => AllDistinct']_vars

\* A second task has just been added to a list that has distinct ids.
C8_Witness ==
    /\ last.op = "addTask"
    /\ Len(tasks) >= 2
    /\ AllDistinct
    /\ ops = 3

\* C9: addTask(title) appends one task with the trimmed title, status todo
\* and an id no listed task has; the tasks already listed keep their values
\* and positions.
C9_AddTask ==
    [][(last'.op = "addTask")
        => /\ Len(tasks') = Len(tasks) + 1
           /\ \A i \in 1..Len(tasks) : tasks'[i] = tasks[i]
           /\ IsTrimOf(tasks'[Len(tasks')].title, last'.title)
           /\ tasks'[Len(tasks')].status = "todo"
           /\ \A i \in 1..Len(tasks) : tasks[i].id # tasks'[Len(tasks')].id]_vars

\* A title with surrounding whitespace has just been added to a non-empty list.
C9_Witness ==
    /\ last.op = "addTask"
    /\ Len(last.before) >= 1
    /\ last.title # tasks[Len(tasks)].title
    /\ Len(tasks) = Len(last.before) + 1

\* C10: moveTask(id, newStatus) sets the status of the task with that id and
\* changes nothing else: same length, same positions, same id, title and
\* createdAt, every other task as it was.
C10_MoveTask ==
    [][(last'.op = "moveTask")
        => /\ Len(tasks') = Len(tasks)
           /\ \A i \in 1..Len(tasks) :
                /\ tasks'[i].id = tasks[i].id
                /\ tasks'[i].title = tasks[i].title
                /\ tasks'[i].createdAt = tasks[i].createdAt
                /\ tasks'[i].status =
                     IF tasks[i].id = last'.taskId THEN last'.newStatus
                                                   ELSE tasks[i].status]_vars

\* The first of several tasks has just been moved to another column.
C10_Witness ==
    /\ last.op = "moveTask"
    /\ Len(tasks) >= 2
    /\ last.before[1].id = last.taskId
    /\ last.before[1].status # last.newStatus
    /\ tasks[1].status = last.newStatus

\* r holds exactly the entries of ts at the positions in K, each once, in
\* the order they have in ts.
IsFilterOf(r, ts, K) ==
    /\ Len(r) = Cardinality(K)
    /\ \A i \in K : r[Cardinality({j \in K : j <= i})] = ts[i]

\* C11: deleteTask(id) drops the task with that id and nothing else; the
\* remaining tasks keep their values and their relative order.
C11_DeleteTask ==
    [][(last'.op = "deleteTask")
        => IsFilterOf(tasks', tasks,
                      {i \in 1..Len(tasks) : tasks[i].id # last'.taskId})]_vars

\* The first of several tasks has just been deleted.
C11_Witness ==
    /\ last.op = "deleteTask"
    /\ Len(last.before) >= 2
    /\ last.before[1].id = last.taskId
    /\ Len(tasks) = Len(last.before) - 1
    /\ tasks[1] = last.before[2]

\* C12: renameTask(id, newTitle) sets the title of the task with that id to
\* the trimmed newTitle and changes nothing else.
C12_RenameTask ==
    [][(last'.op = "renameTask")
        => /\ Len(tasks') = Len(tasks)
           /\ \A i \in 1..Len(tasks) :
                /\ tasks'[i].id = tasks[i].id
                /\ tasks'[i].status = tasks[i].status
                /\ tasks'[i].createdAt = tasks[i].createdAt
                /\ IF tasks[i].id = last'.taskId
                       THEN IsTrimOf(tasks'[i].title, last'.title)
                       ELSE tasks'[i].title = tasks[i].title]_vars

\* One of several tasks has just been given a title that needed trimming.
C12_Witness ==
    /\ last.op = "renameTask"
    /\ Len(tasks) >= 2
    /\ \E i \in 1..Len(tasks) :
          /\ tasks[i].id = last.taskId
          /\ tasks[i].title # last.before[i].title
          /\ tasks[i].title # last.title

NoMatch(ts, taskId) == \A i \in 1..Len(ts) : ts[i].id # taskId

\* C13: deleteTask, moveTask and renameTask with an id no task has leave the
\* canonical list as it was and still push a snapshot of it.
C13_UnmatchedId ==
    [][(last'.op \in {"deleteTask", "moveTask", "renameTask"}
        /\ NoMatch(tasks, last'.taskId))
        => /\ tasks' = tasks
           /\ Pushed(history, tasks, history')
           /\ last'.ret = TRUE]_vars

\* A move naming no listed task has just left a non-empty list alone and
\* saved it.
C13_Witness ==
    /\ last.op = "moveTask"
    /\ tasks # <<>>
    /\ NoMatch(last.before, last.taskId)
    /\ tasks = last.before
    /\ history[Len(history)] = tasks

\* C14: reorderTasks installs the list it is given; with saveHistory false
\* the history stays as it was, with saveHistory true, and when the argument
\* is left out, one snapshot of the list before the call is pushed.
C14_ReorderTasks ==
    [][last'.op = "reorderTasks"
        => /\ tasks' = last'.newList
           /\ last'.defaulted => Pushed(history, tasks, history')
           /\ IF last'.saveHistory THEN Pushed(history, tasks, history')
                                   ELSE history' = history]_vars

\* A reorder with saveHistory false has just replaced the list of a session
\* that has a history, and no snapshot was saved since the session began.
C14_Witness ==
    /\ last.op = "reorderTasks" /\ ~last.saveHistory /\ ~last.defaulted
    /\ tasks = last.newList
    /\ tasks # last.before
    /\ ops >= 1 /\ pre = <<>>
    /\ history # <<>>

\* The step is a call made to the manager (and not a change of the store
\* from outside).
Called == ops' = ops + 1

\* C15: getTasksByStatus(s) returns the tasks of the canonical list whose
\* status is s, each once and in list order, and leaves the list and the
\* history as they were.
C15_TasksByStatus ==
    [][(Called /\ last'.op = "getTasksByStatus")
        => /\ IsFilterOf(last'.result, tasks,
                         {i \in 1..Len(tasks) :
                              tasks[i].status = last'.newStatus})
           /\ tasks' = tasks
           /\ history' = history]_vars

\* A query returned two tasks of a list that also holds a task of another
\* status.
C15_Witness ==
    /\ last.op = "getTasksByStatus"
    /\ Len(last.result) >= 2
    /\ last.result[1] # last.result[2]
    /\ \E i \in 1..Len(tasks) : tasks[i].status # last.newStatus
    /\ tasks = last.before

\* C16: deleteTask(id), undo(), deleteTask(id) leaves the list that the
\* first deleteTask(id) left.
C16_DeleteUndoDelete ==
    [][(penult.op = "deleteTask" /\ last.op = "undo"
        /\ last'.op = "deleteTask" /\ last'.taskId = penult.taskId)
        => tasks' = last.before]_vars

\* Three calls were made: the first removed a task that was not the first of
\* its list, the undo brought that list back, and the last call, naming the
\* removed task, left the list the first call had left.
C16_Witness ==
    /\ ops = 3
    /\ last.op = "deleteTask"
    /\ penult.op = "undo" /\ penult.ret
    /\ Len(pre) = 2 /\ pre[1] = pre[2] /\ pre[2] = last.before
    /\ Len(penult.before) = Len(pre[1]) - 1
    /\ penult.before # <<>> /\ penult.before[1] = pre[1][1]
    /\ ~NoMatch(pre[1], last.taskId)
    /\ NoMatch(penult.before, last.taskId)
    /\ tasks = penult.before

\* What the call recorded in last' does to the list and the history held in
\* memory, stated without the updaters.
InMemoryEffect ==
    /\ Saving(last') => Pushed(history, tasks, history')
    /\ last'.op \in Mutations => last'.ret
    /\ last'.op = "addTask"
         => /\ Len(tasks') = Len(tasks) + 1
            /\ \A i \in 1..Len(tasks) : tasks'[i] = tasks[i]
            /\ IsTrimOf(tasks'[Len(tasks')].title, last'.title)
    /\ last'.op = "deleteTask"
         => IsFilterOf(tasks', tasks,
                       {i \in 1..Len(tasks) : tasks[i].id # last'.taskId})
    /\ last'.op \in {"moveTask", "renameTask"}
         => /\ Len(tasks') = Len(tasks)
            /\ \A i \in 1..Len(tasks) :
                  IF tasks[i].id # last'.taskId THEN tasks'[i] = tasks[i]
                  ELSE /\ tasks'[i].id = tasks[i].id
                       /\ last'.op = "moveTask"
                            => tasks'[i].status = last'.newStatus
                       /\ last'.op = "renameTask"
                            => IsTrimOf(tasks'[i].title, last'.title)
    /\ last'.op = "reorderTasks" => tasks' = last'.newList
    /\ last'.op = "undo"
         => IF history = <<>>
                THEN ~last'.ret /\ tasks' = tasks /\ history' = history
                ELSE /\ last'.ret
                     /\ tasks' = history[Len(history)]
                     /\ history' = SubSeq(history, 1, Len(history) - 1)

\* C17: while writes of a record fail, every mutation and every undo still
\* returns and has its usual effect on the list and the history in memory,
\* and the failing record keeps the content it had.
C17_FailingWrite ==
    [][(Called /\ failing # {} /\ last'.op \in Mutations \cup {"undo"})
        => /\ InMemoryEffect
           /\ \A key \in failing : store'[key] = store[key]]_vars

\* Both records refuse writes; two calls that save a snapshot, the second
\* a renameTask, went through in memory, and the store still holds the list
\* and the history from before the two calls.
C17_Witness ==
    /\ failing = Keys
    /\ last.op = "renameTask"
    /\ Len(pre) = 2 /\ pre[2] = last.before /\ pre[1] # pre[2]
    /\ tasks # last.before
    /\ Len(history) >= 2
    /\ history[Len(history)] = pre[2]
    /\ history[Len(history) - 1] = pre[1]
    /\ store[STORAGE_KEY] = Item(JSONstringifyTasks(pre[1]))
    /\ store[HISTORY_KEY] =
          Item(JSONstringifyHistory(SubSeq(history, 1, Len(history) - 2)))

\* The number of arrays open after the first i tokens of text.
Depth(text, i) ==
    Cardinality({j \in 1..i : text[j].t = "["})
        - Cardinality({j \in 1..i : text[j].t = "]"})

\* text is one complete JSON value: it is not empty, every array it opens
\* is closed, and nothing follows the end of the first value.
Deserializable(text) ==
    /\ text # <<>>
    /\ Depth(text, Len(text)) = 0
    /\ \A i \in 1..(Len(text) - 1) : Depth(text, i) >= 1

\* value is what reading key gives: the fallback (the empty list) when the
\* store refuses access, the key is absent or its content is not one JSON
\* value, and otherwise the value whose serialization, text, is the content.
ReadGives(key, value, text) ==
    IF denied \/ ~store[key].present \/ ~Deserializable(store[key].item)
        THEN value = <<>>
        ELSE text = store[key].item

\* C18: the lazy initializer returns the stored value of a key that is
\* present with deserializable content, and the fallback when the key is
\* absent, the store cannot be accessed or the content does not deserialize.
C18_Read ==
    [][(Called /\ last'.op = "mount")
        => /\ ReadGives(STORAGE_KEY, tasks', JSONstringifyTasks(tasks'))
           /\ ReadGives(HISTORY_KEY, history',
                        JSONstringifyHistory(history'))]_vars

\* The task record was damaged or removed while a list was held: loading the
\* page gave the empty list for it and the stored history for the other key.
C18_Witness ==
    /\ last.op = "mount"
    /\ ~denied /\ faults = 1
    /\ last.before # <<>> /\ tasks = <<>>
    /\ last.hbefore # <<>> /\ history = last.hbefore

\* C19: as long as nothing has gone wrong with the store, after every
\* operation the task record holds the serialized canonical list and the
\* history record holds the serialized history.
C19_WriteThrough ==
    (faults = 0 /\ failing = {})
        => /\ store[STORAGE_KEY] = Item(JSONstringifyTasks(tasks))
           /\ store[HISTORY_KEY] = Item(JSONstringifyHistory(history))

\* A mutation and then an undo changed the list and the history, and both
\* records hold what is in memory.
C19_Witness ==
    /\ penult.op \in Mutations /\ last.op = "undo" /\ last.ret
    /\ tasks # last.before /\ tasks # <<>> /\ history # <<>>
    /\ faults = 0 /\ failing = {}
    /\ store[STORAGE_KEY].item = JSONstringifyTasks(tasks)
    /\ store[HISTORY_KEY].item = JSONstringifyHistory(history)

\* C20: as long as nothing has gone wrong with the store, loading the page
\* again gives the list and the history held before, and an undo() right
\* after it restores the last snapshot of the history held before.
C20_Restart ==
    [][(Called /\ faults = 0 /\ failing = {})
        => /\ last'.op = "mount" => tasks' = tasks /\ history' = history
           /\ (last.op = "mount" /\ last'.op = "undo")
                => IF last.hbefore = <<>>
                       THEN ~last'.ret /\ tasks' = last.before
                       ELSE /\ last'.ret
                            /\ tasks' = last.hbefore[Len(last.hbefore)]
                            /\ history' = SubSeq(last.hbefore, 1,
                                                 Len(last.hbefore) - 1)]_vars

\* After a call of this session the page was loaded again, and the undo()
\* that followed brought back the last snapshot taken before the reload.
C20_Witness ==
    /\ ops >= 3 /\ faults = 0
    /\ penult.op = "mount" /\ last.op = "undo" /\ last.ret
    /\ penult.hbefore # <<>>
    /\ tasks = penult.hbefore[Len(penult.hbefore)]
    /\ tasks # last.before
    /\ Len(history) = Len(penult.hbefore) - 1

\* The record under key holds one complete JSON value.
Intact(key) == store[key].present /\ Deserializable(store[key].item)

\* C21: the task list and the history are read from two independent
\* records.  When the store can be accessed and the page is loaded with the
\* history record absent or unreadable and the task record intact, the
\* manager starts with the stored task list and an empty history, and an
\* undo() right after returns false and leaves the list; with the task
\* record absent or unreadable and the history record intact, it starts with
\* the empty list and the stored history.
C21_IndependentRecords ==
    [][Called
        => /\ (last'.op = "mount" /\ ~denied
                /\ Intact(STORAGE_KEY) /\ ~Intact(HISTORY_KEY))
                 => /\ JSONstringifyTasks(tasks') = store[STORAGE_KEY].item
                    /\ history' = <<>>
           /\ (last'.op = "mount" /\ ~denied
                /\ ~Intact(STORAGE_KEY) /\ Intact(HISTORY_KEY))
                 => /\ tasks' = <<>>
                    /\ JSONstringifyHistory(history')
                          = store[HISTORY_KEY].item
           /\ (last.op = "mount" /\ history = <<>> /\ last'.op = "undo")
                 => ~last'.ret /\ tasks' = tasks /\ history' = <<>>]_vars

\* The history record was damaged or removed while a history was held: the
\* page was loaded with the list that was held and no history, and the
\* undo() that followed returned false and left the list.
C21_Witness ==
    /\ penult.op = "mount" /\ last.op = "undo" /\ ~last.ret
    /\ faults = 1 /\ ~denied /\ failing = {}
    /\ penult.hbefore # <<>> /\ history = <<>>
    /\ penult.before # <<>> /\ tasks = penult.before
    /\ store[STORAGE_KEY] = Item(JSONstringifyTasks(tasks))

\* C22: whatever the components have been made to do, every task of the
\* canonical list has a title that is not empty and neither starts nor ends
\* with whitespace.
C22_Titles ==
    \A i \in 1..Len(tasks) :
        LET title == tasks[i].title
        IN  /\ title # <<>>
            /\ title[1] \notin Whitespace
            /\ title[Len(title)] \notin Whitespace

\* A task was added from the form and a task was then renamed from its edit
\* field, which held text with whitespace around it when it lost the focus.
C22_Witness ==
    /\ event.name = "onBlur" /\ last.op = "renameTask"
    /\ event.text = <<" ", "a", " ", "b", "\t">>
    /\ Len(pre) >= 2
    /\ Len(pre[Len(pre)]) = Len(pre[Len(pre) - 1]) + 1
    /\ \E i \in 1..Len(tasks) :
          /\ tasks[i].id = event.taskId
          /\ tasks[i].title = <<"a", " ", "b">>
          /\ last.before[i].title = <<"c">>

\* C23: a drag from its start to its end adds at most one snapshot to the
\* history, and when it has changed the list, the last snapshot is the list
\* held when the drag started, which is what one undo() then restores.
C23_OneSnapshotPerGesture ==
    [][(event'.name = "handleDragEnd" /\ gesture.active # NoId)
        => /\ Len(pre') - gesture.saved <= 1
           /\ tasks' # gesture.before
                => /\ history' # <<>>
                   /\ history'[Len(history')] = gesture.before]_vars

\* C24: when an event handler has made k undo() calls that returned true,
\* with at least k snapshots held, the canonical list is the k-th most recent
\* of these snapshots and the history is shorter by k.
C24_UndoFromOneRender ==
    [][(last'.op = "undo" /\ last'.ret /\ undone' - undone <= Len(history))
        => /\ Len(history') = Len(history) - (undone' - undone)
           /\ tasks' = history[Len(history) - (undone' - undone) + 1]]_vars

\* The step handles a drop of the dragged task on another task of its
\* column.
SameColumnDrop ==
    /\ event'.name = "handleDragEnd"
    /\ event'.over.task # NoId
    /\ event'.over.task # gesture.active
    /\ \E i, j \in 1..Len(tasks) :
          /\ tasks[i].id = gesture.active
          /\ tasks[j].id = event'.over.task
          /\ tasks[i].status = tasks[j].status

\* a and b hold the same tasks, each as many times in one as in the other.
IsPermutation(a, b) ==
    /\ Len(a) = Len(b)
    /\ \A i \in 1..Len(a) :
          Cardinality({j \in 1..Len(a) : a[j] = a[i]})
              = Cardinality({j \in 1..Len(b) : b[j] = a[i]})

\* The place (1, 2, ...) that the task with the id has among the tasks of
\* its status in ts.
ColumnIndex(ts, id) ==
    LET i == CHOOSE i \in 1..Len(ts) : ts[i].id = id
    IN  Cardinality({j \in 1..i : ts[j].status = ts[i].status})

\* C25: a drop on another task of the same column leaves a permutation of
\* the list, in which the dragged task has, among the tasks of its column,
\* the place the drop target had, and in which the tasks of every other
\* status are those that getTasksByStatus returned before, in the same order.
C25_SameColumnDrop ==
    [][SameColumnDrop
        => /\ IsPermutation(tasks', tasks)
           /\ ColumnIndex(tasks', gesture.active)
                = ColumnIndex(tasks, event'.over.task)
           /\ \A status \in TaskStatus :
                 (\E i \in 1..Len(tasks) : /\ tasks[i].id = gesture.active
                                            /\ tasks[i].status # status)
                    => getTasksByStatus(tasks', status)
                         = getTasksByStatus(tasks, status)]_vars

\* The first of three tasks of a column was dropped on the third and has
\* taken its place, while another column holds a task.
C25_Witness ==
    /\ event.name = "handleDragEnd" /\ last.op = "reorderTasks"
    /\ tasks # last.before
    /\ \E i \in 1..Len(tasks) :
          /\ tasks[i].id = event.taskId
          /\ \E j \in 1..Len(tasks) : tasks[j].status # tasks[i].status
    /\ ColumnIndex(last.before, event.taskId) = 1
    /\ ColumnIndex(last.before, event.over.task) = 3
    /\ ColumnIndex(tasks, event.taskId) = 3

\* The status of the task with the id in the list held before the step.
StatusOf(id) ==
    (CHOOSE t \in {tasks[i] : i \in 1..Len(tasks)} : t.id = id).status

\* The status that a drag event's target stands for: the column's own, or
\* that of the column the target task is in.
TargetStatus(over) ==
    IF over.column # "" THEN over.column ELSE StatusOf(over.task)

\* C26: a drag-over event calls the manager only to move the dragged task
\* to the target's status, and only when the task does not have that status
\* already; a drop on nothing, on the dragged task itself, or on a target in
\* another column calls nothing.  An event that calls nothing leaves the
\* list and the history as they were.
C26_IdleDragEvents ==
    [][/\ event'.name = "handleDragOver"
            => /\ Called
                    => /\ last'.op = "moveTask"
                       /\ last'.taskId = gesture.active
                       /\ event'.over # NoOver
                       /\ last'.newStatus = TargetStatus(event'.over)
                       /\ StatusOf(gesture.active) # TargetStatus(event'.over)
               /\ ~Called => tasks' = tasks /\ history' = history
       /\ (/\ event'.name = "handleDragEnd"
           /\ \/ event'.over = NoOver
              \/ event'.over.task = gesture.active
              \/ StatusOf(gesture.active) # TargetStatus(event'.over))
            => ~Called /\ tasks' = tasks /\ history' = history]_vars

\* In a session that had called nothing, a task was dragged and dropped on a
\* task of another column: still nothing has been called, and the list and
\* the stored records are those the session started with.
C26_Witness ==
    /\ event.name = "handleDragEnd" /\ ops = 0
    /\ event.over.task # NoId /\ event.over.task # event.taskId
    /\ StatusOf(event.over.task) # StatusOf(event.taskId)
    /\ history # <<>> /\ pre = <<>>
    /\ store[STORAGE_KEY] = Item(JSONstringifyTasks(tasks))
    /\ store[HISTORY_KEY] = Item(JSONstringifyHistory(history))

\* C27: the undo control is enabled exactly when the history holds a
\* snapshot, the count it shows is the number of snapshots, and an undo()
\* made from the control found a snapshot to restore.
C27_UndoEnabled ==
    /\ canUndo <=> historyCount > 0
    /\ historyCount = Len(history)
    /\ canUndo <=> history # <<>>
    /\ event.name = "onUndo" => last.op = "undo" /\ last.ret

\* The control was used until the history was empty: the last undo()
\* restored a list, and the control is now disabled.
C27_Witness ==
    /\ event.name = "onUndo" /\ last.op = "undo" /\ last.ret
    /\ penult.op = "undo" /\ penult.ret
    /\ tasks # last.before
    /\ history = <<>> /\ ~canUndo /\ historyCount = 0

\* C28: in every state, each task of the canonical list is in the result of
\* getTasksByStatus for exactly one of the three statuses, and the lengths
\* of the three results add up to the length of the list.
C28_StatusPartition ==
    /\ \A i \in 1..Len(tasks) :
          Cardinality({status \in TaskStatus :
                          \E j \in 1..Len(getTasksByStatus(tasks, status)) :
                              getTasksByStatus(tasks, status)[j] = tasks[i]})
              = 1
    /\ Len(getTasksByStatus(tasks, "todo"))
         + Len(getTasksByStatus(tasks, "in-progress"))
         + Len(getTasksByStatus(tasks, "done")) = Len(tasks)

\* A task was moved, and the list now holds tasks of all three statuses.
C28_Witness ==
    /\ last.op = "moveTask" /\ tasks # last.before
    /\ Len(tasks) >= 3
    /\ \A status \in TaskStatus : getTasksByStatus(tasks, status) # <<>>
    /\ getTasksByStatus(last.before, last.newStatus) = <<>>

\* The title of the task with the id in the list held before the step.
TitleOf(id) ==
    (CHOOSE t \in {tasks[i] : i \in 1..Len(tasks)} : t.id = id).title

\* C29: an edit committed by a blur or by Enter calls the manager only to
\* rename the edited task, and only when the text without the whitespace
\* around it is neither empty nor the title the task has; a commit that calls
\* nothing, and every Escape, leaves the list and the history as they were.
C29_InlineEdit ==
    [][/\ (\/ event'.name = "onBlur"
           \/ event'.name = "handleKeyDown" /\ event'.key = "Enter")
            => /\ Called
                    => /\ last'.op = "renameTask"
                       /\ last'.taskId = event'.taskId
                       /\ IsTrimOf(last'.title, event'.text)
                       /\ ~IsTrimOf(<<>>, event'.text)
                       /\ ~IsTrimOf(TitleOf(event'.taskId), event'.text)
               /\ ~Called => tasks' = tasks /\ history' = history
       /\ (event'.name = "handleKeyDown" /\ event'.key = "Escape")
            => ~Called /\ tasks' = tasks /\ history' = history]_vars

\* A task was renamed from its edit field; a second edit of it, committed
\* with Enter on text that is the new title with whitespace around it, left
\* the list, the history and the snapshots saved as the renaming had left
\* them.
C29_Witness ==
    /\ event.name = "handleKeyDown" /\ event.key = "Enter" /\ event.idle
    /\ last.op = "renameTask" /\ last.taskId = event.taskId
    /\ event.text # TitleOf(event.taskId)
    /\ IsTrimOf(TitleOf(event.taskId), event.text)
    /\ tasks # last.before
    /\ pre # <<>> /\ pre[Len(pre)] = last.before
    /\ history # <<>> /\ history[Len(history)] = last.before

====
